---- MODULE Spec2Model ----
(***************************************************************************)
(* Model of the request-processing middleware of edge-next:                *)
(*   - lib/api/rate-limit.ts   (checkRateLimit, withRateLimit,             *)
(*                              getRateLimitStatus)                        *)
(*   - lib/cache/client.ts     (CacheClient over the KV namespace)         *)
(*   - lib/api/middleware.ts   (withRequestLogging, withErrorHandling,     *)
(*                              withMiddleware)                            *)
(* Every action is one run of the code between two awaits.                 *)
(***************************************************************************)
EXTENDS Integers, Sequences, FiniteSets, TLC

(***************************************************************************)
(* Bounds of the model.                                                    *)
(***************************************************************************)
NumReq == 2
MaxTicks == 5
MaxConcTicks == 3
TicksPerSecond == 2
EnvMaxRequests == 2
EnvWindowSeconds == 1
CustomMaxRequests == 1
MaxClients == 2
MemMaxSize == 2
MemDefaultTTL == 1
MemMaxTTL == 2
ForeignMaxCount == 3
ForeignTtlSeconds == 2

(***************************************************************************)
(* Program constants.                                                      *)
(***************************************************************************)
MsPerSecond == 1000
TooManyRequests == 429
HandlerOk == 200

TickMs == MsPerSecond \div TicksPerSecond

Req == 1..NumReq
SeqReq == {1}
ClientIds == {"1.2.3.4"}

(***************************************************************************)
(* Strings that the code inspects by prefix are sequences of chunks.       *)
(***************************************************************************)
HealthPath == <<"/api", "/health">>
HealthzPath == <<"/api", "/health", "z">>
UsersPath == <<"/api", "/users">>
Paths == {HealthPath, HealthzPath, UsersPath}

StartsWith_Exact(s, p) == s = p
StartsWith(s, p) == Len(p) <= Len(s) /\ SubSeq(s, 1, Len(p)) = p

(***************************************************************************)
(* Configuration.                                                          *)
(***************************************************************************)
\* the fields of DEFAULT_CONFIG that the environment cannot override
DEFAULT_CONFIG == [keyPrefix |-> "rate-limit", skipPaths |-> {HealthPath}]

\* maxRequests and windowSeconds as RATE_LIMIT_MAX_REQUESTS and
\* RATE_LIMIT_WINDOW_SECONDS set them
getRateLimitConfig ==
    [maxRequests |-> EnvMaxRequests, windowSeconds |-> EnvWindowSeconds,
     keyPrefix |-> DEFAULT_CONFIG.keyPrefix, skipPaths |-> DEFAULT_CONFIG.skipPaths]

\* the customConfig arguments the routes pass: none, or the stricter
\* { maxRequests, windowSeconds } of POST /api/users
CustomIds == {"none", "strict"}
CustomConfig(id) ==
    IF id = "strict"
    THEN [maxRequests |-> CustomMaxRequests, windowSeconds |-> EnvWindowSeconds]
    ELSE [x \in {} |-> 0]

\* { ...a, ...b }
Spread(a, b) ==
    [f \in (DOMAIN a) \cup (DOMAIN b) |-> IF f \in DOMAIN b THEN b[f] ELSE a[f]]

Config(id) == Spread(getRateLimitConfig, CustomConfig(id))

EnvFlagValues == {"unset", "true", "false"}
isRateLimitEnabled_Always(flag) == TRUE
isRateLimitEnabled(flag) == flag # "false"

IsSkipped(path, config) == \E p \in config.skipPaths : StartsWith(path, p)

MakeKey(config, clientId) == <<config.keyPrefix, clientId>>
Keys == {<<DEFAULT_CONFIG.keyPrefix, c>> : c \in ClientIds}

(***************************************************************************)
(* The counter store: a KV namespace with per-key expiry.                  *)
(***************************************************************************)
NoValue == [json |-> FALSE, count |-> 0, firstRequestTime |-> 0]
NoEntry == [present |-> FALSE, val |-> NoValue, expiresAt |-> 0]

\* JSON.stringify({ count, firstRequestTime })
JSONStringify(count, firstRequestTime) ==
    [json |-> TRUE, count |-> count, firstRequestTime |-> firstRequestTime]
\* JSON.parse
JSONParse(v) ==
    [threw |-> ~v.json, count |-> v.count, firstRequestTime |-> v.firstRequestTime]

\* x || d on numbers
OrElse(x, d) == IF x = 0 THEN d ELSE x

\* Math.ceil(x / d), Math.floor(x / d)
Ceil(x, d) == 0 - ((0 - x) \div d)
Floor(x, d) == x \div d
Max(a, b) == IF a >= b THEN a ELSE b

(***************************************************************************)
(* lib/errors/index.ts                                                     *)
(***************************************************************************)
\* enum ErrorType
ErrorType ==
    {"DATABASE_ERROR", "DATABASE_CONNECTION_ERROR", "DATABASE_QUERY_ERROR",
     "DATABASE_CONSTRAINT_ERROR", "FILE_ERROR", "FILE_NOT_FOUND", "FILE_UPLOAD_ERROR",
     "FILE_DOWNLOAD_ERROR", "FILE_SIZE_EXCEEDED", "CONVERSION_ERROR", "JSON_PARSE_ERROR",
     "TYPE_CONVERSION_ERROR", "VALIDATION_ERROR", "INVALID_INPUT",
     "MISSING_REQUIRED_FIELD", "AUTHENTICATION_ERROR", "AUTHORIZATION_ERROR",
     "TOKEN_EXPIRED", "INVALID_CREDENTIALS", "RESOURCE_NOT_FOUND",
     "RESOURCE_ALREADY_EXISTS", "BUSINESS_LOGIC_ERROR", "EXTERNAL_SERVICE_ERROR",
     "API_ERROR", "NETWORK_ERROR", "RATE_LIMIT_ERROR", "INTERNAL_SERVER_ERROR",
     "UNKNOWN_ERROR"}

ERROR_STATUS_MAP ==
    [t \in ErrorType |->
        CASE t \in {"DATABASE_CONNECTION_ERROR", "NETWORK_ERROR"} -> 503
          [] t \in {"DATABASE_CONSTRAINT_ERROR", "RESOURCE_ALREADY_EXISTS"} -> 409
          [] t \in {"FILE_NOT_FOUND", "RESOURCE_NOT_FOUND"} -> 404
          [] t = "FILE_SIZE_EXCEEDED" -> 413
          [] t \in {"CONVERSION_ERROR", "JSON_PARSE_ERROR", "TYPE_CONVERSION_ERROR",
                    "VALIDATION_ERROR", "INVALID_INPUT", "MISSING_REQUIRED_FIELD",
                    "BUSINESS_LOGIC_ERROR"} -> 400
          [] t \in {"AUTHENTICATION_ERROR", "TOKEN_EXPIRED", "INVALID_CREDENTIALS"} -> 401
          [] t = "AUTHORIZATION_ERROR" -> 403
          [] t \in {"EXTERNAL_SERVICE_ERROR", "API_ERROR"} -> 502
          [] t = "RATE_LIMIT_ERROR" -> 429
          [] OTHER -> 500]

\* an argument that was left out (undefined); as a status code it is falsy,
\* like 0
Undefined == 0
NoPayload == "undefined"

\* a message is modelled by the set of the words that
\* message.toLowerCase().includes(word) finds in it
Words == {"database", "sql", "network", "fetch", "json", "parse", "file", "upload"}
Includes(message, word) == word \in message

\* new AppError(message, type, statusCode, true, details)
AppError(name, message, type, statusCode, details) ==
    [kind |-> "AppError", name |-> name, message |-> message, type |-> type,
     statusCode |-> IF statusCode # Undefined THEN statusCode ELSE ERROR_STATUS_MAP[type],
     details |-> details, stack |-> TRUE]

\* the subclasses of AppError whose constructor passes a literal status to
\* super(...)
LiteralStatusClasses ==
    { <<"DatabaseError", "DATABASE_ERROR", 500>>,
      <<"DatabaseConnectionError", "DATABASE_CONNECTION_ERROR", 503>>,
      <<"DatabaseQueryError", "DATABASE_QUERY_ERROR", 500>>,
      <<"DatabaseConstraintError", "DATABASE_CONSTRAINT_ERROR", 409>>,
      <<"ValidationError", "VALIDATION_ERROR", 400>>,
      <<"InvalidInputError", "INVALID_INPUT", 400>>,
      <<"MissingRequiredFieldError", "MISSING_REQUIRED_FIELD", 400>>,
      <<"AuthenticationError", "AUTHENTICATION_ERROR", 401>>,
      <<"AuthorizationError", "AUTHORIZATION_ERROR", 403>>,
      <<"TokenExpiredError", "TOKEN_EXPIRED", 401>>,
      <<"InvalidCredentialsError", "INVALID_CREDENTIALS", 401>>,
      <<"ResourceNotFoundError", "RESOURCE_NOT_FOUND", 404>>,
      <<"ResourceAlreadyExistsError", "RESOURCE_ALREADY_EXISTS", 409>>,
      <<"BusinessLogicError", "BUSINESS_LOGIC_ERROR", 400>>,
      <<"ExternalServiceError", "EXTERNAL_SERVICE_ERROR", 502>>,
      <<"APIError", "API_ERROR", 502>>,
      <<"NetworkError", "NETWORK_ERROR", 503>>,
      <<"TooManyRequestsError", "RATE_LIMIT_ERROR", 429>>,
      <<"InternalServerError", "INTERNAL_SERVER_ERROR", 500>> }

\* FileError, ConversionError and their subclasses pass ERROR_STATUS_MAP[type]
MappedStatusClasses ==
    { <<"FileError", "FILE_ERROR">>,
      <<"FileNotFoundError", "FILE_NOT_FOUND">>,
      <<"FileUploadError", "FILE_UPLOAD_ERROR">>,
      <<"FileDownloadError", "FILE_DOWNLOAD_ERROR">>,
      <<"FileSizeExceededError", "FILE_SIZE_EXCEEDED">>,
      <<"ConversionError", "CONVERSION_ERROR">>,
      <<"JSONParseError", "JSON_PARSE_ERROR">>,
      <<"TypeConversionError", "TYPE_CONVERSION_ERROR">> }

ClassTable ==
    LiteralStatusClasses \cup {<<c[1], c[2], ERROR_STATUS_MAP[c[2]]>> : c \in MappedStatusClasses}

\* new <name>(message, details) for a subclass of AppError
NewError(name, message, details) ==
    LET c == CHOOSE c \in ClassTable : c[1] = name IN
    AppError(name, message, c[2], c[3], details)

\* a native Error, and a thrown value that is no Error
NativeError(message) ==
    [kind |-> "Error", name |-> "Error", message |-> message, type |-> "none",
     statusCode |-> Undefined, details |-> NoPayload, stack |-> TRUE]
NonError(v) ==
    [kind |-> "value", name |-> v, message |-> {}, type |-> "none",
     statusCode |-> Undefined, details |-> NoPayload, stack |-> FALSE]

\* createAppErrorFromNative
createAppErrorFromNative_Rewrap(error) ==
    IF error.kind \in {"AppError", "Error"}
    THEN IF Includes(error.message, "database") \/ Includes(error.message, "sql")
         THEN NewError("DatabaseError", error.message, "error")
         ELSE IF Includes(error.message, "network") \/ Includes(error.message, "fetch")
         THEN NewError("NetworkError", error.message, "error")
         ELSE IF Includes(error.message, "json") \/ Includes(error.message, "parse")
         THEN NewError("JSONParseError", error.message, "error")
         ELSE IF Includes(error.message, "file") \/ Includes(error.message, "upload")
         THEN NewError("FileError", error.message, "error")
         ELSE NewError("InternalServerError", error.message, "error")
    ELSE NewError("InternalServerError", {}, error.name)
createAppErrorFromNative(error) ==
    IF error.kind = "AppError" THEN error
    ELSE IF error.kind = "Error"
    THEN IF Includes(error.message, "database") \/ Includes(error.message, "sql")
         THEN NewError("DatabaseError", error.message, "error")
         ELSE IF Includes(error.message, "network") \/ Includes(error.message, "fetch")
         THEN NewError("NetworkError", error.message, "error")
         ELSE IF Includes(error.message, "json") \/ Includes(error.message, "parse")
         THEN NewError("JSONParseError", error.message, "error")
         ELSE IF Includes(error.message, "file") \/ Includes(error.message, "upload")
         THEN NewError("FileError", error.message, "error")
         ELSE NewError("InternalServerError", error.message, "error")
    ELSE NewError("InternalServerError", {}, error.name)

(***************************************************************************)
(* lib/api/response.ts                                                     *)
(***************************************************************************)
NodeEnvValues == {"production", "development", "unset"}

\* if (appError.details): undefined, null, 0 and '' are falsy
Falsy == {NoPayload, "null", "0", "''"}
Truthy(v) == v \notin Falsy

NoBody ==
    [success |-> TRUE, type |-> "none", message |-> {}, hasDetails |-> FALSE,
     hasStack |-> FALSE]

\* createErrorResponse
createErrorResponse_Always(error, nodeEnv) ==
    LET appError == IF error.kind = "AppError" THEN error
                    ELSE createAppErrorFromNative(error)
    IN [success |-> FALSE, type |-> appError.type, message |-> appError.message,
        hasDetails |-> Truthy(appError.details),
        hasStack |-> appError.stack]
createErrorResponse(error, nodeEnv) ==
    LET appError == IF error.kind = "AppError" THEN error
                    ELSE createAppErrorFromNative(error)
    IN [success |-> FALSE, type |-> appError.type, message |-> appError.message,
        hasDetails |-> nodeEnv # "production" /\ Truthy(appError.details),
        hasStack |-> nodeEnv # "production" /\ appError.stack]

\* createSuccessResponse / successResponse(data)
successResponse(statusCode) ==
    [status |-> statusCode,
     body |-> [NoBody EXCEPT !.success = TRUE, !.type = "data"]]

\* errorResponse(error, statusCode)
errorResponse(error, statusCode, nodeEnv) ==
    LET appError == IF error.kind = "AppError" THEN error
                    ELSE createAppErrorFromNative(error)
    IN [status |-> IF statusCode # Undefined THEN statusCode ELSE appError.statusCode,
        body |-> createErrorResponse(appError, nodeEnv)]

\* notFoundResponse, validationErrorResponse, unauthorizedResponse,
\* forbiddenResponse, serviceUnavailableResponse
Helpers ==
    {"notFoundResponse", "validationErrorResponse", "unauthorizedResponse",
     "forbiddenResponse", "serviceUnavailableResponse"}
HelperResponse(h, details, nodeEnv) ==
    CASE h = "notFoundResponse" ->
           errorResponse(AppError("AppError", {}, "RESOURCE_NOT_FOUND", Undefined,
                                  NoPayload), 404, nodeEnv)
      [] h = "validationErrorResponse" ->
           errorResponse(AppError("AppError", {}, "VALIDATION_ERROR", 400, details),
                         400, nodeEnv)
      [] h = "unauthorizedResponse" ->
           errorResponse(AppError("AppError", {}, "AUTHENTICATION_ERROR", Undefined,
                                  NoPayload), 401, nodeEnv)
      [] h = "forbiddenResponse" ->
           errorResponse(AppError("AppError", {}, "AUTHORIZATION_ERROR", Undefined,
                                  NoPayload), 403, nodeEnv)
      [] h = "serviceUnavailableResponse" ->
           errorResponse(AppError("AppError", {}, "EXTERNAL_SERVICE_ERROR", 503,
                                  NoPayload), 503, nodeEnv)

(***************************************************************************)
(* State.                                                                  *)
(***************************************************************************)
VARIABLES
    clock,      \* Date.now(), in milliseconds
    env,        \* process.env: the bindings DB and KV, and RATE_LIMIT_ENABLED
    startFlag,  \* RATE_LIMIT_ENABLED as it was when the process started
    kvUp,       \* FALSE while the operations of the KV namespace throw
    store,      \* the KV namespace: key -> entry
    req,        \* the requests in flight in the isolate
    hist,       \* per key, the results of the checks of the current window
    mw,         \* the requests in flight in the middleware pipeline
    call,       \* the last direct call of a library function, and its result
    prisma,     \* lib/db/client.ts: the cached PrismaClient and the instances made
    mem         \* lib/cache.ts: the Map of cacheService

vars == <<clock, env, startFlag, kvUp, store, req, hist, mw, call, prisma, mem>>

(***************************************************************************)
(* lib/cache/client.ts                                                     *)
(***************************************************************************)
\* getCloudflareEnv / getKVNamespace / createCacheClient: null unless the
\* DB binding is defined and the KV binding is set
createCacheClient == env.DB /\ env.KV

\* an entry is readable until its expirationTtl has run out
Live(k) == store[k].present /\ clock < store[k].expiresAt

\* KVNamespace.get: a fault throws; an expired or missing key reads null
KVGet(k) ==
    [threw |-> ~kvUp,
     isNull |-> ~kvUp \/ ~Live(k),
     val |-> IF kvUp /\ Live(k) THEN store[k].val ELSE NoValue]

\* CacheClient.get: try { return await kv.get } catch { return null }
CacheClientGet_Rethrow(k) == KVGet(k)
CacheClientGet(k) ==
    LET g == KVGet(k) IN
    IF g.threw THEN [threw |-> FALSE, isNull |-> TRUE, val |-> NoValue] ELSE g

\* KVNamespace.put with expirationTtl: a fault throws and writes nothing
KVPut_KeepHigher(k, v, ttl) ==
    [threw |-> ~kvUp,
     store |-> IF kvUp /\ ~(store[k].present /\ store[k].val.count >= v.count)
               THEN [store EXCEPT ![k] = [present |-> TRUE, val |-> v,
                                          expiresAt |-> clock + ttl * MsPerSecond]]
               ELSE store]
KVPut(k, v, ttl) ==
    [threw |-> ~kvUp,
     store |-> IF kvUp
               THEN [store EXCEPT ![k] = [present |-> TRUE, val |-> v,
                                          expiresAt |-> clock + ttl * MsPerSecond]]
               ELSE store]

\* CacheClient.set: try { await kv.put } catch { log }
CacheClientSet(k, v, ttl) ==
    LET p == KVPut(k, v, ttl) IN [threw |-> FALSE, store |-> p.store]

\* CacheClient.put returns this.set(key, value, options)
CacheClientPut(k, v, ttl) == CacheClientSet(k, v, ttl)

\* KVNamespace.delete: a fault throws and deletes nothing
KVDelete(k) ==
    [threw |-> ~kvUp,
     store |-> IF kvUp THEN [store EXCEPT ![k] = NoEntry] ELSE store]

\* CacheClient.delete: try { await kv.delete } catch { log }
CacheClientDelete(k) ==
    LET d == KVDelete(k) IN [threw |-> FALSE, store |-> d.store]

(***************************************************************************)
(* lib/api/rate-limit.ts: checkRateLimit                                   *)
(***************************************************************************)
NoStatus == [allowed |-> TRUE, remaining |-> 0, resetAt |-> 0, limit |-> 0]

\* the status returned when createCacheClient() is null
KVUnavailableStatus_Closed(config, now) ==
    [allowed |-> FALSE, remaining |-> 0,
     resetAt |-> now + config.windowSeconds * MsPerSecond,
     limit |-> config.maxRequests]
KVUnavailableStatus(config, now) ==
    [allowed |-> TRUE, remaining |-> config.maxRequests,
     resetAt |-> now + config.windowSeconds * MsPerSecond,
     limit |-> config.maxRequests]

\* the status returned by the catch block of checkRateLimit
CatchStatus(config, now) ==
    [allowed |-> TRUE, remaining |-> config.maxRequests,
     resetAt |-> now + config.windowSeconds * MsPerSecond,
     limit |-> config.maxRequests]

\* count / firstRequestTime after reading currentData
ReadCounter_DropStart(g, now) ==
    IF g.isNull THEN [count |-> 0, firstRequestTime |-> now]
    ELSE LET parsed == JSONParse(g.val) IN
         IF parsed.threw THEN [count |-> 0, firstRequestTime |-> now]
         ELSE [count |-> OrElse(parsed.count, 0), firstRequestTime |-> now]
ReadCounter(g, now) ==
    IF g.isNull THEN [count |-> 0, firstRequestTime |-> now]
    ELSE LET parsed == JSONParse(g.val) IN
         IF parsed.threw THEN [count |-> 0, firstRequestTime |-> now]
         ELSE [count |-> OrElse(parsed.count, 0),
               firstRequestTime |-> OrElse(parsed.firstRequestTime, now)]

\* now - firstRequestTime > windowMs
WindowExpired_Never(now, firstRequestTime, windowMs) == FALSE
WindowExpired(now, firstRequestTime, windowMs) == now - firstRequestTime > windowMs

\* the counter after the window check
WindowCounter(c, now, windowMs) ==
    IF WindowExpired(now, c.firstRequestTime, windowMs)
    THEN [count |-> 0, firstRequestTime |-> now]
    ELSE c

\* count >= config.maxRequests
OverLimit_OffByOne(count, config) == count > config.maxRequests
OverLimit(count, config) == count >= config.maxRequests

RejectedStatus(firstRequestTime, config) ==
    [allowed |-> FALSE, remaining |-> 0,
     resetAt |-> firstRequestTime + config.windowSeconds * MsPerSecond,
     limit |-> config.maxRequests]

\* count is the incremented counter
AdmittedStatus(count, firstRequestTime, config) ==
    [allowed |-> TRUE, remaining |-> config.maxRequests - count,
     resetAt |-> firstRequestTime + config.windowSeconds * MsPerSecond,
     limit |-> config.maxRequests]

(***************************************************************************)
(* Responses.                                                              *)
(***************************************************************************)
HeaderNames == {"X-RateLimit-Limit", "X-RateLimit-Remaining", "X-RateLimit-Reset",
                "Retry-After"}
Unset == [set |-> FALSE, v |-> 0]
Hdr(v) == [set |-> TRUE, v |-> v]
NoHeaders == [h \in HeaderNames |-> Unset]

NoDetails == [limit |-> 0, resetAt |-> 0, retryAfter |-> 0]
NoResponse == [code |-> 0, type |-> "none", details |-> NoDetails, headers |-> NoHeaders]

\* what the business handler returns
HandlerResponse ==
    [code |-> HandlerOk, type |-> "data", details |-> NoDetails, headers |-> NoHeaders]

\* addRateLimitHeaders
addRateLimitHeaders_Millis(response, status) ==
    [response EXCEPT !.headers =
        [h \in HeaderNames |->
            CASE h = "X-RateLimit-Limit" -> Hdr(status.limit)
              [] h = "X-RateLimit-Remaining" -> Hdr(status.remaining)
              [] h = "X-RateLimit-Reset" -> Hdr(status.resetAt)
              [] OTHER -> response.headers[h]]]
addRateLimitHeaders(response, status) ==
    [response EXCEPT !.headers =
        [h \in HeaderNames |->
            CASE h = "X-RateLimit-Limit" -> Hdr(status.limit)
              [] h = "X-RateLimit-Remaining" -> Hdr(status.remaining)
              [] h = "X-RateLimit-Reset" -> Hdr(Floor(status.resetAt, MsPerSecond))
              [] OTHER -> response.headers[h]]]

\* Math.ceil((status.resetAt - Date.now()) / 1000)
RetryAfter(status, now) == Ceil(status.resetAt - now, MsPerSecond)

\* the 429 response of withRateLimit, with its Retry-After header
RejectionResponse(status, retryAfter) ==
    [code |-> TooManyRequests, type |-> "RATE_LIMIT_ERROR",
     details |-> [limit |-> status.limit, resetAt |-> status.resetAt,
                  retryAfter |-> retryAfter],
     headers |-> [NoHeaders EXCEPT !["Retry-After"] = Hdr(retryAfter)]]

\* if (!status.allowed)
ShouldReject_NoneLeft(status) == status.remaining = 0
ShouldReject(status) == ~status.allowed

\* analytics.trackRateLimitExceeded: the event is recorded unless the sink
\* fails, and the call never raises
trackRateLimitExceeded(sinkOk) == [threw |-> FALSE, recorded |-> sinkOk]

\* console.error of a catch block: one entry when the block runs
ErrorLogs(caught) == IF caught THEN 1 ELSE 0

(***************************************************************************)
(* lib/cache.ts: CacheService                                              *)
(***************************************************************************)
MemKeys == {"products:en:1", "products:en:2", "user:1"}

\* a key the Map does not hold
NoMemEntry == [present |-> FALSE, expiresAt |-> 0]

\* this.cache.size
MemSize(m) == Cardinality({k \in MemKeys : m[k].present})

\* cleanup(): delete the entries with now > expiresAt
cleanup(m, now) ==
    [k \in MemKeys |->
        IF m[k].present /\ now > m[k].expiresAt THEN NoMemEntry ELSE m[k]]

\* set(key, data, ttl)
CacheServiceSet(m, key, ttl, now) ==
    LET expiresAt == now + OrElse(ttl, MemDefaultTTL) * MsPerSecond
        cleaned == IF MemSize(m) >= MemMaxSize THEN cleanup(m, now) ELSE m
    IN
    [cleaned EXCEPT ![key] = [present |-> TRUE, expiresAt |-> expiresAt]]

\* get(key): the entry returned, and the Map afterwards
CacheServiceGet(m, key, now) ==
    IF ~m[key].present
    THEN [hit |-> FALSE, expiresAt |-> 0, mem |-> m]
    ELSE IF now > m[key].expiresAt
    THEN [hit |-> FALSE, expiresAt |-> 0, mem |-> [m EXCEPT ![key] = NoMemEntry]]
    ELSE [hit |-> TRUE, expiresAt |-> m[key].expiresAt, mem |-> m]

\* delete(key)
CacheServiceDelete(m, key) == [m EXCEPT ![key] = NoMemEntry]

(***************************************************************************)
(* Requests.                                                               *)
(***************************************************************************)
IdleReq ==
    [op |-> "idle", pc |-> "idle", client |-> "none", path |-> <<>>, custom |-> "none",
     flag |-> "none", via |-> "none", now |-> 0,
     rdNull |-> TRUE, rdVal |-> NoValue, getFault |-> FALSE, putFault |-> FALSE,
     count |-> 0, firstRequestTime |-> 0,
     hasStatus |-> FALSE, status |-> NoStatus, retryAfter |-> 0,
     hcalls |-> 0, reads |-> 0, writes |-> 0, warns |-> 0, errors |-> 0,
     tracked |-> "none",
     outcome |-> "none", resp |-> NoResponse]

\* the request once withRateLimit has returned: the locals of the call
\* are gone, its result and its effects remain
Returned(q) ==
    [q EXCEPT !.pc = "done", !.now = 0, !.rdNull = TRUE, !.rdVal = NoValue,
              !.count = 0, !.firstRequestTime = 0]

NoHist == [custom |-> {}, start |-> 0, admitted |-> 0]

\* a check that read the clock at now and found an entry (found) falls
\* into the window of key k that is under way
InWindow(k, found, now, windowMs) ==
    hist[k].admitted > 0 /\ found /\ now - hist[k].start <= windowMs

\* the window of key k after an admission
HistAdmit(k, custom, found, now, windowMs) ==
    IF InWindow(k, found, now, windowMs)
    THEN [hist EXCEPT ![k] = [custom |-> @.custom \cup {custom}, start |-> @.start,
                              admitted |-> @.admitted + 1]]
    ELSE [hist EXCEPT ![k] = [custom |-> {custom}, start |-> now, admitted |-> 1]]

\* a direct call of a library function: nothing called yet
IdleCall == [op |-> "idle"]

\* let prismaClient: PrismaClient | null = null; the instances are numbered
\* in the order of their construction, 0 stands for null
NoPrisma == [client |-> 0, constructed |-> 0, disconnected |-> {}, disconnects |-> 0]

\* the requests of the middleware pipeline (lib/api/middleware.ts)
TracingHeaders == {"X-Request-ID", "X-Trace-ID", "X-Span-ID", "X-Response-Time"}

\* what a business handler can throw: typed errors, a native Error, and a
\* value that is no Error
ThrownValues ==
    {NewError("ValidationError", {}, "fields"),
     NewError("DatabaseConnectionError", {}, NoPayload),
     NativeError({"database"}),
     NonError("string")}
NoError ==
    [kind |-> "none", name |-> "none", message |-> {}, type |-> "none",
     statusCode |-> Undefined, details |-> NoPayload, stack |-> FALSE]
\* the status codes of the responses a business handler returns; for a
\* function under withApiHandler, the datum it returns
HandlerCodes == {200, 404, 500}

NoMwResponse ==
    [code |-> 0, success |-> TRUE, type |-> "none", data |-> 0, headers |-> {}]
Settled(threw, err, code) ==
    [threw |-> threw, err |-> err,
     resp |-> IF threw THEN NoMwResponse
              ELSE [code |-> code, success |-> code < 400,
                    type |-> IF code < 400 THEN "data" ELSE "error",
                    data |-> 0, headers |-> {}]]

IdleMw ==
    [op |-> "idle", route |-> "none", pc |-> "idle", log |-> <<>>, events |-> <<>>,
     invoked |-> 0, binding |-> TRUE, repos |-> 0,
     handlerThrew |-> FALSE, thrown |-> NoError, ret |-> 0,
     inner |-> Settled(FALSE, NoError, 0),
     outcome |-> "none", err |-> NoError, resp |-> NoMwResponse]

Init ==
    /\ clock = TickMs
    /\ env \in [DB : BOOLEAN, KV : BOOLEAN, RATE_LIMIT_ENABLED : EnvFlagValues,
                 NODE_ENV : NodeEnvValues]
    /\ startFlag = env.RATE_LIMIT_ENABLED
    /\ kvUp = TRUE
    /\ store = [k \in Keys |-> NoEntry]
    /\ req = [r \in Req |-> IdleReq]
    /\ hist = [k \in Keys |-> NoHist]
    /\ mw = [r \in Req |-> IdleMw]
    /\ call = IdleCall
    /\ prisma = NoPrisma
    /\ mem = [k \in MemKeys |-> NoMemEntry]

(***************************************************************************)
(* withRateLimit                                                           *)
(***************************************************************************)
\* withRateLimit once checkRateLimit has returned status: a rejection
\* builds the 429 response and calls analytics, anything else invokes the
\* handler
AfterCheck(q, status) ==
    IF ShouldReject(status)
    THEN [q EXCEPT !.hasStatus = TRUE, !.status = status,
                   !.retryAfter = RetryAfter(status, clock),
                   !.resp = RejectionResponse(status, RetryAfter(status, clock)),
                   !.pc = "analytics"]
    ELSE [q EXCEPT !.hasStatus = TRUE, !.status = status,
                   !.pc = "handler", !.hcalls = @ + 1]

\* from the call to the first await: the enabled flag, the skip list, and
\* checkRateLimit up to cache.get
WrlStart(r, c, path, custom) ==
    /\ req[r].pc = "idle"
    /\ LET config == Config(custom)
           base == [IdleReq EXCEPT !.op = "wrl", !.client = c, !.path = path,
                                   !.custom = custom,
                                   !.flag = env.RATE_LIMIT_ENABLED]
       IN
       req' = [req EXCEPT ![r] =
          IF ~isRateLimitEnabled(env.RATE_LIMIT_ENABLED)
          THEN [base EXCEPT !.via = "disabled", !.pc = "handler", !.hcalls = 1]
          ELSE IF IsSkipped(path, config)
          THEN [base EXCEPT !.via = "skip", !.pc = "handler", !.hcalls = 1]
          ELSE IF ~createCacheClient
          THEN AfterCheck([base EXCEPT !.via = "limiter", !.warns = 1],
                          KVUnavailableStatus(config, clock))
          ELSE [base EXCEPT !.via = "limiter", !.now = clock, !.reads = 1, !.pc = "get"]]
    /\ UNCHANGED <<clock, env, startFlag, kvUp, store, hist, mw, call, prisma, mem>>

\* cache.get resolves: parse, window check, limit check; a rejection
\* returns from checkRateLimit, an admission issues cache.put
WrlGet(r) ==
    /\ req[r].pc = "get"
    /\ req[r].op = "wrl"
    /\ LET q == req[r]
           config == Config(q.custom)
           k == MakeKey(config, q.client)
           windowMs == config.windowSeconds * MsPerSecond
           g == CacheClientGet(k)
           c == WindowCounter(ReadCounter(g, q.now), q.now, windowMs)
           seen == [q EXCEPT !.rdNull = g.isNull, !.rdVal = g.val, !.getFault = ~kvUp,
                             !.errors = @ + ErrorLogs(~kvUp) + ErrorLogs(g.threw)]
       IN
       req' = [req EXCEPT ![r] =
          IF g.threw
          THEN AfterCheck(seen, CatchStatus(config, q.now))
          ELSE IF OverLimit(c.count, config)
          THEN AfterCheck([seen EXCEPT !.count = c.count,
                                       !.firstRequestTime = c.firstRequestTime],
                          RejectedStatus(c.firstRequestTime, config))
          ELSE [seen EXCEPT !.count = c.count + 1,
                            !.firstRequestTime = c.firstRequestTime,
                            !.writes = 1, !.pc = "put"]]
    /\ UNCHANGED <<clock, env, startFlag, kvUp, store, hist, mw, call, prisma, mem>>

\* { expirationTtl: config.windowSeconds }
ExpirationTtl_Short(config) == config.windowSeconds - 1
ExpirationTtl(config) == config.windowSeconds

\* cache.put resolves: checkRateLimit returns the admitted status
WrlPut(r) ==
    /\ req[r].pc = "put"
    /\ LET q == req[r]
           config == Config(q.custom)
           k == MakeKey(config, q.client)
           p == CacheClientPut(k, JSONStringify(q.count, q.firstRequestTime),
                               ExpirationTtl(config))
           st == IF p.threw THEN CatchStatus(config, q.now)
                 ELSE AdmittedStatus(q.count, q.firstRequestTime, config)
       IN
       /\ store' = p.store
       /\ req' = [req EXCEPT ![r] =
             AfterCheck([q EXCEPT !.putFault = ~kvUp,
                                  !.errors = @ + ErrorLogs(~kvUp) + ErrorLogs(p.threw)],
                        st)]
       /\ hist' = IF p.threw THEN hist
                  ELSE HistAdmit(k, q.custom, ~q.rdNull, q.now,
                                 config.windowSeconds * MsPerSecond)
    /\ UNCHANGED <<clock, env, startFlag, kvUp, mw, call, prisma, mem>>

\* the analytics call of the rejection branch resolves: the 429 response
\* gets the rate-limit headers and is returned
WrlAnalytics(r, sinkOk) ==
    /\ req[r].pc = "analytics"
    /\ LET q == req[r]
           t == trackRateLimitExceeded(sinkOk)
       IN
       req' = [req EXCEPT ![r] =
          IF t.threw
          THEN Returned([q EXCEPT !.outcome = "threw", !.tracked = "threw"])
          ELSE Returned([q EXCEPT !.outcome = "returned",
                                  !.tracked = IF t.recorded THEN "recorded" ELSE "lost",
                                  !.resp = addRateLimitHeaders(q.resp, q.status)])]
    /\ UNCHANGED <<clock, env, startFlag, kvUp, store, hist, mw, call, prisma, mem>>

\* the business handler settles: its response is returned as it is on the
\* disabled and skip paths, with the rate-limit headers after a check
WrlHandler(r, threw) ==
    /\ req[r].pc = "handler"
    /\ req[r].op = "wrl"
    /\ LET q == req[r] IN
       req' = [req EXCEPT ![r] =
          IF threw
          THEN Returned([q EXCEPT !.outcome = "threw"])
          ELSE IF q.via = "limiter"
          THEN Returned([q EXCEPT !.outcome = "returned",
                                  !.resp = addRateLimitHeaders(HandlerResponse, q.status)])
          ELSE Returned([q EXCEPT !.outcome = "returned", !.resp = HandlerResponse])]
    /\ UNCHANGED <<clock, env, startFlag, kvUp, store, hist, mw, call, prisma, mem>>

(***************************************************************************)
(* getRateLimitStatus                                                      *)
(***************************************************************************)
\* the status computed from what cache.get returned
PeekStatus_NoClamp(g, now, config) ==
    LET windowMs == config.windowSeconds * MsPerSecond
        fresh == [allowed |-> TRUE, remaining |-> config.maxRequests,
                  resetAt |-> now + windowMs, limit |-> config.maxRequests]
    IN
    IF g.threw \/ g.isNull THEN fresh
    ELSE LET parsed == JSONParse(g.val) IN
         IF parsed.threw THEN fresh
         ELSE LET count == OrElse(parsed.count, 0)
                  firstRequestTime == OrElse(parsed.firstRequestTime, now)
              IN
              IF WindowExpired(now, firstRequestTime, windowMs) THEN fresh
              ELSE [allowed |-> count < config.maxRequests,
                    remaining |-> config.maxRequests - count,
                    resetAt |-> firstRequestTime + windowMs,
                    limit |-> config.maxRequests]
PeekStatus_Inclusive(g, now, config) ==
    LET windowMs == config.windowSeconds * MsPerSecond
        fresh == [allowed |-> TRUE, remaining |-> config.maxRequests,
                  resetAt |-> now + windowMs, limit |-> config.maxRequests]
    IN
    IF g.threw \/ g.isNull THEN fresh
    ELSE LET parsed == JSONParse(g.val) IN
         IF parsed.threw THEN fresh
         ELSE LET count == OrElse(parsed.count, 0)
                  firstRequestTime == OrElse(parsed.firstRequestTime, now)
              IN
              IF WindowExpired(now, firstRequestTime, windowMs) THEN fresh
              ELSE [allowed |-> count <= config.maxRequests,
                    remaining |-> Max(0, config.maxRequests - count),
                    resetAt |-> firstRequestTime + windowMs,
                    limit |-> config.maxRequests]
PeekStatus(g, now, config) ==
    LET windowMs == config.windowSeconds * MsPerSecond
        fresh == [allowed |-> TRUE, remaining |-> config.maxRequests,
                  resetAt |-> now + windowMs, limit |-> config.maxRequests]
    IN
    IF g.threw \/ g.isNull THEN fresh
    ELSE LET parsed == JSONParse(g.val) IN
         IF parsed.threw THEN fresh
         ELSE LET count == OrElse(parsed.count, 0)
                  firstRequestTime == OrElse(parsed.firstRequestTime, now)
              IN
              IF WindowExpired(now, firstRequestTime, windowMs) THEN fresh
              ELSE [allowed |-> count < config.maxRequests,
                    remaining |-> Max(0, config.maxRequests - count),
                    resetAt |-> firstRequestTime + windowMs,
                    limit |-> config.maxRequests]

\* the store after getRateLimitStatus handled what cache.get returned:
\* the function issues no put and no delete
PeekStore_Increment(k, g) ==
    IF ~g.isNull /\ kvUp
    THEN [store EXCEPT ![k].val.count = @ + 1]
    ELSE store
PeekStore(k, g) == store

PeekStart(r, c, custom) ==
    /\ req[r].pc = "idle"
    /\ LET config == Config(custom)
           base == [IdleReq EXCEPT !.op = "peek", !.client = c, !.custom = custom]
       IN
       req' = [req EXCEPT ![r] =
          IF ~createCacheClient
          THEN [base EXCEPT !.hasStatus = TRUE,
                            !.status = KVUnavailableStatus(config, clock),
                            !.outcome = "returned", !.pc = "done"]
          ELSE [base EXCEPT !.now = clock, !.reads = 1, !.pc = "get"]]
    /\ UNCHANGED <<clock, env, startFlag, kvUp, store, hist, mw, call, prisma, mem>>

PeekGet(r) ==
    /\ req[r].pc = "get"
    /\ req[r].op = "peek"
    /\ LET q == req[r]
           config == Config(q.custom)
           k == MakeKey(config, q.client)
           g == CacheClientGet(k)
       IN
       /\ req' = [req EXCEPT ![r] =
             [q EXCEPT !.rdNull = g.isNull, !.rdVal = g.val, !.getFault = ~kvUp,
                       !.errors = @ + ErrorLogs(~kvUp) + ErrorLogs(g.threw),
                       !.hasStatus = TRUE, !.status = PeekStatus(g, q.now, config),
                       !.writes = IF PeekStore(k, g) = store THEN 0 ELSE 1,
                       !.outcome = "returned", !.pc = "done"]]
       /\ store' = PeekStore(k, g)
    /\ UNCHANGED <<clock, env, startFlag, kvUp, hist, mw, call, prisma, mem>>

(***************************************************************************)
(* The environment of the isolate.                                         *)
(***************************************************************************)
\* the caller has consumed the result; the slot serves the next request
Recycle(r) ==
    /\ req[r].pc = "done"
    /\ req' = [req EXCEPT ![r] = IdleReq]
    /\ UNCHANGED <<clock, env, startFlag, kvUp, store, hist, mw, call, prisma, mem>>

Tick(maxTicks) ==
    /\ clock < maxTicks * TickMs
    /\ clock' = clock + TickMs
    /\ UNCHANGED <<env, startFlag, kvUp, store, req, hist, mw, call, prisma, mem>>

\* the KV namespace starts / stops failing
KVFail ==
    /\ kvUp
    /\ kvUp' = FALSE
    /\ UNCHANGED <<clock, env, startFlag, store, req, hist, mw, call, prisma, mem>>

KVRecover ==
    /\ ~kvUp
    /\ kvUp' = TRUE
    /\ UNCHANGED <<clock, env, startFlag, store, req, hist, mw, call, prisma, mem>>

\* process.env.RATE_LIMIT_ENABLED is assigned while the process runs
SetEnvFlag(v) ==
    /\ v # env.RATE_LIMIT_ENABLED
    /\ env' = [env EXCEPT !.RATE_LIMIT_ENABLED = v]
    /\ UNCHANGED <<clock, startFlag, kvUp, store, req, hist, mw, call, prisma, mem>>

Next ==
    \/ \E r \in Req, c \in ClientIds, path \in Paths, custom \in CustomIds :
          WrlStart(r, c, path, custom)
    \/ \E r \in Req : WrlGet(r)
    \/ \E r \in Req : WrlPut(r)
    \/ \E r \in Req, sinkOk \in BOOLEAN : WrlAnalytics(r, sinkOk)
    \/ \E r \in Req, threw \in BOOLEAN : WrlHandler(r, threw)
    \/ \E r \in Req, c \in ClientIds, custom \in CustomIds : PeekStart(r, c, custom)
    \/ \E r \in Req : PeekGet(r)
    \/ Tick(MaxConcTicks)
    \/ KVFail
    \/ KVRecover

\* concurrent requests of one isolate, with a store that may fail
InitConc ==
    /\ Init
    /\ env.RATE_LIMIT_ENABLED # "true"
    /\ env.NODE_ENV = "production"

Spec == InitConc /\ [][Next]_vars

(***************************************************************************)
(* One request at a time against a reliable store with no other writer.    *)
(***************************************************************************)
InitSeq ==
    /\ Init
    /\ env.DB /\ env.KV
    /\ env.NODE_ENV = "production"

NextSeq ==
    \/ \E r \in SeqReq, c \in ClientIds, path \in Paths, custom \in CustomIds :
          WrlStart(r, c, path, custom)
    \/ \E r \in SeqReq : WrlGet(r)
    \/ \E r \in SeqReq : WrlPut(r)
    \/ \E r \in SeqReq, sinkOk \in BOOLEAN : WrlAnalytics(r, sinkOk)
    \/ \E r \in SeqReq, threw \in BOOLEAN : WrlHandler(r, threw)
    \/ \E r \in SeqReq, c \in ClientIds, custom \in CustomIds : PeekStart(r, c, custom)
    \/ \E r \in SeqReq : PeekGet(r)
    \/ \E r \in SeqReq : Recycle(r)
    \/ Tick(MaxTicks)
    \/ \E v \in EnvFlagValues : SetEnvFlag(v)

SpecSeq == InitSeq /\ [][NextSeq]_vars

(***************************************************************************)
(* lib/api/middleware.ts                                                   *)
(***************************************************************************)
\* withErrorHandling: try { return await handler() } catch (error) { throw error }
withErrorHandling(settled) == settled

\* withApiHandler: handler().then(data => successResponse(data))
\*                          .catch(error => errorResponse(error))
withApiHandler_Rethrow(threw, err, data, nodeEnv) ==
    IF threw THEN Settled(TRUE, err, 0)
    ELSE [threw |-> FALSE, err |-> NoError,
          resp |-> [code |-> successResponse(HandlerOk).status, success |-> TRUE,
                    type |-> "data", data |-> data, headers |-> {}]]
withApiHandler(threw, err, data, nodeEnv) ==
    LET res == IF threw THEN errorResponse(err, Undefined, nodeEnv)
               ELSE successResponse(HandlerOk)
    IN [threw |-> FALSE, err |-> NoError,
        resp |-> [code |-> res.status, success |-> res.body.success,
                  type |-> res.body.type, data |-> IF threw THEN 0 ELSE data,
                  headers |-> {}]]

\* the routes of the pipeline: withMiddleware(request, handler) and
\* withMiddleware(request, () => withApiHandler(fn))
Routes == {"handler", "withApiHandler"}

\* Logger.http picks the level by status
HttpLevel(code) == IF code >= 500 THEN "error" ELSE IF code >= 400 THEN "warn" ELSE "info"

\* withRequestLogging before the try block: the identifiers, the
\* 'Incoming request' event, then the call of the inner stage
StartLog_HandlerFirst == <<"ids", "invoke", "info:Incoming request">>
StartLog == <<"ids", "info:Incoming request", "invoke">>

\* withRequestLogging up to the call of the inner stage, which for
\* withMiddleware is withErrorHandling(handler)
MwStart(r, route) ==
    /\ mw[r].pc = "idle"
    /\ mw' = [mw EXCEPT ![r] =
          [IdleMw EXCEPT !.op = "withMiddleware", !.route = route, !.pc = "handler",
                         !.invoked = 1, !.log = StartLog]]
    /\ UNCHANGED <<clock, env, startFlag, kvUp, store, req, hist, call, prisma, mem>>

\* the inner stage has settled: the logging stage logs the completion or
\* the failure and calls analytics
AfterInner(m, inner) ==
    IF inner.threw
    THEN [m EXCEPT !.inner = inner,
                   !.log = @ \o <<"settled", "error:Request failed",
                                  "analytics:trackError">>,
                   !.pc = "trackError"]
    ELSE [m EXCEPT !.inner = inner,
                   !.log = @ \o <<"settled", HttpLevel(inner.resp.code) \o ":http",
                                  "analytics:trackHttpRequest">>,
                   !.pc = "trackHttpRequest"]

\* the handler settles and withErrorHandling passes the outcome on
MwHandler(r, threw, err, code) ==
    /\ mw[r].pc = "handler"
    /\ mw[r].op = "withMiddleware"
    /\ LET inner == IF mw[r].route = "withApiHandler"
                    THEN withErrorHandling(withApiHandler(threw, err, code, env.NODE_ENV))
                    ELSE withErrorHandling(Settled(threw, err, code))
       IN mw' = [mw EXCEPT ![r] = AfterInner([@ EXCEPT !.handlerThrew = threw, !.thrown = err,
                                                      !.ret = code], inner)]
    /\ UNCHANGED <<clock, env, startFlag, kvUp, store, req, hist, call, prisma, mem>>

\* analytics.trackHttpRequest / analytics.trackError: the event is
\* recorded unless the sink fails, and the call never raises
trackEvent_Rejects(name, sinkOk) ==
    [threw |-> ~sinkOk, events |-> IF sinkOk THEN <<name>> ELSE <<>>]
trackEvent(name, sinkOk) ==
    [threw |-> FALSE, events |-> IF sinkOk THEN <<name>> ELSE <<>>]

\* the end of the catch block of withRequestLogging: throw error
CatchOutcome_Swallow(m) ==
    [m EXCEPT !.outcome = "returned",
              !.resp = [NoMwResponse EXCEPT !.code = 500, !.success = FALSE,
                                            !.type = "INTERNAL_SERVER_ERROR"],
              !.pc = "done"]
CatchOutcome(m) ==
    [m EXCEPT !.outcome = "threw", !.err = m.inner.err, !.pc = "done"]

\* the analytics call resolves: the response gets the tracing headers and
\* is returned, or the error of the inner stage is thrown again
MwTracked(r, sinkOk) ==
    /\ mw[r].pc \in {"trackError", "trackHttpRequest"}
    /\ LET m == mw[r]
           t == trackEvent(m.pc, sinkOk)
       IN
       mw' = [mw EXCEPT ![r] =
          IF t.threw
          THEN [m EXCEPT !.outcome = "threw", !.err = NonError("analytics"),
                         !.pc = "done"]
          ELSE IF m.pc = "trackError"
          THEN CatchOutcome([m EXCEPT !.events = t.events])
          ELSE [m EXCEPT !.events = t.events, !.outcome = "returned",
                         !.resp = [m.inner.resp EXCEPT !.headers = TracingHeaders],
                         !.log = @ \o <<"headers">>, !.pc = "done"]]
    /\ UNCHANGED <<clock, env, startFlag, kvUp, store, req, hist, call, prisma, mem>>

\* withErrorHandling called on its own
WehStart(r) ==
    /\ mw[r].pc = "idle"
    /\ mw' = [mw EXCEPT ![r] =
          [IdleMw EXCEPT !.op = "withErrorHandling", !.pc = "handler", !.invoked = 1]]
    /\ UNCHANGED <<clock, env, startFlag, kvUp, store, req, hist, call, prisma, mem>>

WehHandler(r, threw, err, code) ==
    /\ mw[r].pc = "handler"
    /\ mw[r].op = "withErrorHandling"
    /\ LET inner == withErrorHandling(Settled(threw, err, code)) IN
       mw' = [mw EXCEPT ![r] =
          [@ EXCEPT !.handlerThrew = threw, !.thrown = err, !.ret = code,
                    !.inner = inner,
                    !.outcome = IF inner.threw THEN "threw" ELSE "returned",
                    !.err = inner.err, !.resp = inner.resp, !.pc = "done"]]
    /\ UNCHANGED <<clock, env, startFlag, kvUp, store, req, hist, call, prisma, mem>>

MwRecycle(r) ==
    /\ mw[r].pc = "done"
    /\ mw' = [mw EXCEPT ![r] = IdleMw]
    /\ UNCHANGED <<clock, env, startFlag, kvUp, store, req, hist, call, prisma, mem>>

\* what a settling handler does: throw one of the values, or return
HandlerResults ==
    {<<TRUE, e, 0>> : e \in ThrownValues} \cup {<<FALSE, NoError, c>> : c \in HandlerCodes}

NextMw ==
    \/ \E r \in Req, route \in Routes : MwStart(r, route)
    \/ \E r \in Req, h \in HandlerResults : MwHandler(r, h[1], h[2], h[3])
    \/ \E r \in Req, sinkOk \in BOOLEAN : MwTracked(r, sinkOk)
    \/ \E r \in Req : WehStart(r)
    \/ \E r \in Req, h \in HandlerResults : WehHandler(r, h[1], h[2], h[3])
    \/ \E r \in Req : MwRecycle(r)

\* requests through the pipeline; the bindings play no part in it
InitMw ==
    /\ Init
    /\ env.DB /\ env.KV
    /\ env.RATE_LIMIT_ENABLED = "unset"

SpecMw == InitMw /\ [][NextMw]_vars

(***************************************************************************)
(* lib/db/client.ts and lib/api/database.ts                                *)
(***************************************************************************)
\* getCloudflareEnv / getDatabase: null unless the DB binding is defined
getDatabase == env.DB

\* createPrismaClient: the instance it returns (0 for null) and the cache
\* after the call
createPrismaClient_PerCall(p, db) ==
    IF ~db THEN [ret |-> 0, prisma |-> p]
    ELSE [ret |-> p.constructed + 1,
          prisma |-> [p EXCEPT !.client = p.constructed + 1,
                               !.constructed = p.constructed + 1]]
createPrismaClient(p, db) ==
    IF ~db THEN [ret |-> 0, prisma |-> p]
    ELSE IF p.client # 0 THEN [ret |-> p.client, prisma |-> p]
    ELSE [ret |-> p.constructed + 1,
          prisma |-> [p EXCEPT !.client = p.constructed + 1,
                               !.constructed = p.constructed + 1]]

\* the call constructs an instance; the model stops at MaxClients of them
Constructs(p, db) == createPrismaClient(p, db).prisma.constructed > p.constructed
CanCreate(p, db) == Constructs(p, db) => p.constructed < MaxClients

\* resetPrismaClient: $disconnect() is called on the cached instance, the
\* promise is not awaited, and the cache is set to null
resetPrismaClient_KeepHandle(p) ==
    IF p.client # 0
    THEN [p EXCEPT !.disconnected = @ \cup {p.client}, !.disconnects = @ + 1]
    ELSE p
resetPrismaClient(p) ==
    IF p.client # 0
    THEN [p EXCEPT !.disconnected = @ \cup {p.client}, !.disconnects = @ + 1,
                   !.client = 0]
    ELSE p

CallCreatePrismaClient ==
    /\ CanCreate(prisma, getDatabase)
    /\ prisma' = createPrismaClient(prisma, getDatabase).prisma
    /\ call' = [op |-> "createPrismaClient", db |-> getDatabase, before |-> prisma,
                ret |-> createPrismaClient(prisma, getDatabase).ret,
                after |-> createPrismaClient(prisma, getDatabase).prisma]
    /\ UNCHANGED <<clock, env, startFlag, kvUp, store, req, hist, mw, mem>>

\* resetPrismaClient(), and what a second call right after it would leave
CallResetPrismaClient ==
    /\ prisma' = resetPrismaClient(prisma)
    /\ call' = [op |-> "resetPrismaClient", before |-> prisma,
                after |-> resetPrismaClient(prisma),
                twice |-> resetPrismaClient(resetPrismaClient(prisma))]
    /\ UNCHANGED <<clock, env, startFlag, kvUp, store, req, hist, mw, mem>>

\* if (!prisma) throw new DatabaseConnectionError('Database not available')
PrismaMissing_Never(client) == FALSE
PrismaMissing(client) == client = 0

\* withRepositories: withMiddleware runs the logging stage up to the inner
\* stage, which asks for the Prisma client and either throws or calls the
\* handler with the repositories built on it
RepoStart(r) ==
    /\ mw[r].pc = "idle"
    /\ CanCreate(prisma, getDatabase)
    /\ LET c == createPrismaClient(prisma, getDatabase) IN
       /\ prisma' = c.prisma
       /\ mw' = [mw EXCEPT ![r] =
             IF PrismaMissing(c.ret)
             THEN [IdleMw EXCEPT !.op = "withMiddleware", !.route = "withRepositories",
                                 !.binding = getDatabase, !.log = StartLog,
                                 !.pc = "rejected"]
             ELSE [IdleMw EXCEPT !.op = "withMiddleware", !.route = "withRepositories",
                                 !.binding = getDatabase, !.log = StartLog,
                                 !.invoked = 1, !.repos = c.ret, !.pc = "handler"]]
    /\ UNCHANGED <<clock, env, startFlag, kvUp, store, req, hist, call, mem>>

\* the inner stage threw before it reached the handler: the logging stage
\* resumes in its catch block
RepoRejected(r) ==
    /\ mw[r].pc = "rejected"
    /\ mw' = [mw EXCEPT ![r] =
          AfterInner(@, withErrorHandling(
              Settled(TRUE, NewError("DatabaseConnectionError", {}, NoPayload), 0)))]
    /\ UNCHANGED <<clock, env, startFlag, kvUp, store, req, hist, call, prisma, mem>>

\* process.env.DB is set or deleted
SetDB(b) ==
    /\ env.DB # b
    /\ env' = [env EXCEPT !.DB = b]
    /\ UNCHANGED <<clock, startFlag, kvUp, store, req, hist, mw, call, prisma, mem>>

\* what the business handler of a withRepositories route does
RepoResults ==
    {<<TRUE, NewError("ValidationError", {}, "fields"), 0>>, <<FALSE, NoError, 200>>}

NextDb ==
    \/ CallCreatePrismaClient
    \/ CallResetPrismaClient
    \/ \E r \in Req : RepoStart(r)
    \/ \E r \in Req : RepoRejected(r)
    \/ \E r \in Req, h \in RepoResults : MwHandler(r, h[1], h[2], h[3])
    \/ \E r \in Req, sinkOk \in BOOLEAN : MwTracked(r, sinkOk)
    \/ \E r \in Req : MwRecycle(r)
    \/ \E b \in BOOLEAN : SetDB(b)

InitDb ==
    /\ Init
    /\ env.KV
    /\ env.RATE_LIMIT_ENABLED = "unset"
    /\ env.NODE_ENV = "production"

SpecDb == InitDb /\ [][NextDb]_vars

(***************************************************************************)
(* Direct calls of the CacheClient of lib/cache/client.ts.                 *)
(***************************************************************************)
\* the values a caller stores
CacheValues == {JSONStringify(1, TickMs), JSONStringify(2, TickMs)}

CallCacheGet(k) ==
    /\ call' = [op |-> "get", key |-> k, fault |-> ~kvUp,
                threw |-> CacheClientGet(k).threw,
                isNull |-> CacheClientGet(k).isNull,
                val |-> CacheClientGet(k).val]
    /\ UNCHANGED <<clock, env, startFlag, kvUp, store, req, hist, mw, prisma, mem>>

CallCacheSet(k, v, ttl) ==
    /\ store' = CacheClientSet(k, v, ttl).store
    /\ call' = [op |-> "set", key |-> k, fault |-> ~kvUp,
                threw |-> CacheClientSet(k, v, ttl).threw]
    /\ UNCHANGED <<clock, env, startFlag, kvUp, req, hist, mw, prisma, mem>>

CallCachePut(k, v, ttl) ==
    /\ store' = CacheClientPut(k, v, ttl).store
    /\ call' = [op |-> "put", key |-> k, fault |-> ~kvUp,
                threw |-> CacheClientPut(k, v, ttl).threw]
    /\ UNCHANGED <<clock, env, startFlag, kvUp, req, hist, mw, prisma, mem>>

CallCacheDelete(k) ==
    /\ store' = CacheClientDelete(k).store
    /\ call' = [op |-> "delete", key |-> k, fault |-> ~kvUp,
                threw |-> CacheClientDelete(k).threw]
    /\ UNCHANGED <<clock, env, startFlag, kvUp, req, hist, mw, prisma, mem>>

NextCache ==
    \/ \E k \in Keys : CallCacheGet(k)
    \/ \E k \in Keys, v \in CacheValues : CallCacheSet(k, v, EnvWindowSeconds)
    \/ \E k \in Keys, v \in CacheValues : CallCachePut(k, v, EnvWindowSeconds)
    \/ \E k \in Keys : CallCacheDelete(k)
    \/ Tick(MaxTicks)
    \/ KVFail
    \/ KVRecover

\* the process with both bindings set, the flag unset, in production
InitDeployed ==
    /\ Init
    /\ env.DB /\ env.KV
    /\ env.RATE_LIMIT_ENABLED = "unset"
    /\ env.NODE_ENV = "production"

SpecCache == InitDeployed /\ [][NextCache]_vars

(***************************************************************************)
(* Direct calls of lib/errors and lib/api/response.                        *)
(***************************************************************************)
\* the values a caller can hand to the functions: typed errors of every
\* class with and without details, AppErrors constructed with and without
\* an explicit status, native Errors, and values that are no Error
Payloads == {NoPayload, "fields"}
ErrorValues ==
    {NewError(c[1], {}, d) : c \in ClassTable, d \in Payloads}
    \cup {AppError("AppError", {}, t, sc, NoPayload) :
             t \in ErrorType, sc \in {Undefined, 503}}
    \cup {NativeError(m) : m \in {w \in SUBSET Words : Cardinality(w) <= 2}}
    \cup {NonError(v) : v \in {"string", "null", NoPayload}}
\* the statusCode argument of errorResponse
StatusArgs == {Undefined, 200, 404}

\* createErrorResponse(error)
CallCreateErrorResponse(error) ==
    /\ call' = [op |-> "createErrorResponse", error |-> error,
                nodeEnv |-> env.NODE_ENV,
                body |-> createErrorResponse(error, env.NODE_ENV)]
    /\ UNCHANGED <<clock, env, startFlag, kvUp, store, req, hist, mw, prisma, mem>>

\* errorResponse(error, statusCode)
CallErrorResponse(error, statusCode) ==
    /\ call' = [op |-> "errorResponse", error |-> error, statusCode |-> statusCode,
                nodeEnv |-> env.NODE_ENV,
                status |-> errorResponse(error, statusCode, env.NODE_ENV).status,
                body |-> errorResponse(error, statusCode, env.NODE_ENV).body]
    /\ UNCHANGED <<clock, env, startFlag, kvUp, store, req, hist, mw, prisma, mem>>

\* notFoundResponse(), validationErrorResponse(message, details), ...
CallHelper(h, details) ==
    /\ call' = [op |-> h, nodeEnv |-> env.NODE_ENV,
                status |-> HelperResponse(h, details, env.NODE_ENV).status,
                body |-> HelperResponse(h, details, env.NODE_ENV).body]
    /\ UNCHANGED <<clock, env, startFlag, kvUp, store, req, hist, mw, prisma, mem>>

\* createAppErrorFromNative(error), applied to its own result, and applied
\* to the same value a second time
CallNormalize(error) ==
    /\ call' = [op |-> "createAppErrorFromNative", error |-> error,
                once |-> createAppErrorFromNative(error),
                twice |-> createAppErrorFromNative(createAppErrorFromNative(error)),
                again |-> createAppErrorFromNative(error)]
    /\ UNCHANGED <<clock, env, startFlag, kvUp, store, req, hist, mw, prisma, mem>>

NextApi ==
    \/ \E error \in ErrorValues : CallCreateErrorResponse(error)
    \/ \E error \in ErrorValues, sc \in StatusArgs : CallErrorResponse(error, sc)
    \/ \E h \in Helpers, d \in Payloads : CallHelper(h, d)
    \/ \E error \in ErrorValues : CallNormalize(error)

InitApi ==
    /\ Init
    /\ env.DB /\ env.KV
    /\ env.RATE_LIMIT_ENABLED = "unset"

SpecApi == InitApi /\ [][NextApi]_vars

(***************************************************************************)
(* Error bodies and rejections of the rate limiter in one process.         *)
(***************************************************************************)
\* errors with and without details, a native Error and a value that is no
\* Error
LeakErrors ==
    {NewError("ValidationError", {}, "fields"),
     NewError("ValidationError", {}, NoPayload),
     NativeError({"database"}),
     NonError("string")}

NextLeak ==
    \/ \E error \in LeakErrors : CallCreateErrorResponse(error)
    \/ \E error \in LeakErrors : CallErrorResponse(error, Undefined)
    \/ \E r \in SeqReq, c \in ClientIds, path \in Paths, custom \in CustomIds :
          WrlStart(r, c, path, custom)
    \/ \E r \in SeqReq : WrlGet(r)
    \/ \E r \in SeqReq : WrlPut(r)
    \/ \E r \in SeqReq, sinkOk \in BOOLEAN : WrlAnalytics(r, sinkOk)
    \/ \E r \in SeqReq, threw \in BOOLEAN : WrlHandler(r, threw)
    \/ \E r \in SeqReq : Recycle(r)
    \/ Tick(MaxConcTicks)

SpecLeak == InitApi /\ [][NextLeak]_vars

(***************************************************************************)
(* A request through withMiddleware and a request through withRateLimit    *)
(* with an analytics sink that may fail.                                   *)
(***************************************************************************)
NextFire ==
    \/ \E r \in SeqReq, route \in Routes : MwStart(r, route)
    \/ \E r \in SeqReq, h \in HandlerResults : MwHandler(r, h[1], h[2], h[3])
    \/ \E r \in SeqReq, sinkOk \in BOOLEAN : MwTracked(r, sinkOk)
    \/ \E r \in SeqReq, c \in ClientIds, path \in Paths, custom \in CustomIds :
          WrlStart(r, c, path, custom)
    \/ \E r \in SeqReq : WrlGet(r)
    \/ \E r \in SeqReq : WrlPut(r)
    \/ \E r \in SeqReq, sinkOk \in BOOLEAN : WrlAnalytics(r, sinkOk)
    \/ \E r \in SeqReq, threw \in BOOLEAN : WrlHandler(r, threw)
    \/ \E r \in SeqReq : Recycle(r)
    \/ Tick(MaxConcTicks)

SpecFire == InitDeployed /\ [][NextFire]_vars

(***************************************************************************)
(* The namespace is shared: other writers store records under the keys of  *)
(* the limiter.                                                            *)
(***************************************************************************)
\* what JSON.parse(currentData) has to cope with: text that is not JSON, an
\* object without the fields, and records of any policy
ForeignValues ==
    {NoValue} \cup
    {JSONStringify(count, firstRequestTime) :
        count \in 0..ForeignMaxCount, firstRequestTime \in {0, clock}}

\* another writer of the namespace puts v under key k, before the requests
\* of this isolate
ForeignPut(k, v) ==
    /\ \A r \in Req : req[r].pc = "idle"
    /\ store' = [store EXCEPT ![k] =
                    [present |-> TRUE, val |-> v,
                     expiresAt |-> clock + ForeignTtlSeconds * MsPerSecond]]
    /\ UNCHANGED <<clock, env, startFlag, kvUp, req, hist, mw, call, prisma, mem>>

\* request 1 queries the status, request 2 is checked
NextForeign ==
    \/ \E c \in ClientIds, custom \in CustomIds : WrlStart(2, c, UsersPath, custom)
    \/ WrlGet(2)
    \/ WrlPut(2)
    \/ \E sinkOk \in BOOLEAN : WrlAnalytics(2, sinkOk)
    \/ \E threw \in BOOLEAN : WrlHandler(2, threw)
    \/ \E c \in ClientIds, custom \in CustomIds : PeekStart(1, c, custom)
    \/ PeekGet(1)
    \/ Tick(MaxTicks)
    \/ KVFail
    \/ KVRecover
    \/ \E k \in Keys, v \in ForeignValues : ForeignPut(k, v)

InitForeign ==
    /\ Init
    /\ env.DB
    /\ env.RATE_LIMIT_ENABLED = "unset"
    /\ env.NODE_ENV = "production"

SpecForeign == InitForeign /\ [][NextForeign]_vars

(***************************************************************************)
(* Concurrent requests against a slow store: the operations of a call can  *)
(* take longer than a window.                                              *)
(***************************************************************************)
NextSlow ==
    \/ \E r \in Req, c \in ClientIds, custom \in CustomIds :
          WrlStart(r, c, UsersPath, custom)
    \/ \E r \in Req : WrlGet(r)
    \/ \E r \in Req : WrlPut(r)
    \/ \E r \in Req : WrlAnalytics(r, TRUE)
    \/ \E r \in Req : WrlHandler(r, FALSE)
    \/ Tick(MaxTicks)

SpecSlow == InitDeployed /\ [][NextSlow]_vars

(***************************************************************************)
(* Direct calls of cacheService.                                           *)
(***************************************************************************)
CallMemSet(key, ttl) ==
    /\ mem' = CacheServiceSet(mem, key, ttl, clock)
    /\ call' = [op |-> "memSet", key |-> key, now |-> clock]
    /\ UNCHANGED <<clock, env, startFlag, kvUp, store, req, hist, mw, prisma>>

CallMemGet(key) ==
    /\ mem' = CacheServiceGet(mem, key, clock).mem
    /\ call' = [op |-> "memGet", key |-> key, now |-> clock,
                hit |-> CacheServiceGet(mem, key, clock).hit,
                expiresAt |-> CacheServiceGet(mem, key, clock).expiresAt]
    /\ UNCHANGED <<clock, env, startFlag, kvUp, store, req, hist, mw, prisma>>

CallMemDelete(key) ==
    /\ mem' = CacheServiceDelete(mem, key)
    /\ call' = [op |-> "memDelete", key |-> key, now |-> clock]
    /\ UNCHANGED <<clock, env, startFlag, kvUp, store, req, hist, mw, prisma>>

CallMemCleanup ==
    /\ mem' = cleanup(mem, clock)
    /\ call' = [op |-> "memCleanup", now |-> clock]
    /\ UNCHANGED <<clock, env, startFlag, kvUp, store, req, hist, mw, prisma>>

NextMem ==
    \* the ttl argument in seconds; 0 stands for an omitted argument
    \/ \E key \in MemKeys, ttl \in 0..MemMaxTTL : CallMemSet(key, ttl)
    \/ \E key \in MemKeys : CallMemGet(key)
    \/ \E key \in MemKeys : CallMemDelete(key)
    \/ CallMemCleanup
    \/ Tick(MaxTicks)

SpecMem == InitDeployed /\ [][NextMem]_vars

(***************************************************************************)
(* Properties of the rate limiter.                                         *)
(***************************************************************************)
WindowMsOf(q) == Config(q.custom).windowSeconds * MsPerSecond
LimitOf(q) == Config(q.custom).maxRequests
KeyOf(q) == MakeKey(Config(q.custom), q.client)

\* checkRateLimit has just returned to the withRateLimit call q, whose
\* locals are still in scope
JustChecked(q) ==
    /\ q.op = "wrl"
    /\ q.via = "limiter"
    /\ q.hasStatus
    /\ q.pc \in {"handler", "analytics"}

\* the call q found a counter record under its key
ReadRecord(q) == ~q.rdNull /\ q.rdVal.json

\* C1: with one request at a time, a reliable store and one policy per
\* key, the n-th check of a window is admitted with remaining =
\* maxRequests - n for n = 1..maxRequests, and a check is rejected only
\* as the (maxRequests+1)-th or later of its window, with remaining = 0.
C1_MonotonicAdmission ==
    \A r \in Req :
        LET q == req[r]
            k == KeyOf(q)
        IN
        (JustChecked(q) /\ hist[k].custom = {q.custom}) =>
            IF q.status.allowed
            THEN /\ hist[k].admitted >= 1
                 /\ hist[k].admitted <= LimitOf(q)
                 /\ q.status.remaining = LimitOf(q) - hist[k].admitted
            ELSE /\ InWindow(k, ~q.rdNull, q.now, WindowMsOf(q))
                 /\ hist[k].admitted = LimitOf(q)
                 /\ q.status.remaining = 0

\* the check after maxRequests admissions of the default policy is rejected
C1_Witness ==
    \E r \in Req :
        /\ JustChecked(req[r])
        /\ req[r].custom = "none"
        /\ hist[KeyOf(req[r])] = [custom |-> {"none"},
                                   start |-> hist[KeyOf(req[r])].start,
                                   admitted |-> EnvMaxRequests]
        /\ ~req[r].status.allowed
        /\ req[r].status.remaining = 0

\* C2 as stated: a check that finds the limit reached and reads the clock
\* at any t >= resetAt, t = resetAt included, is admitted with
\* remaining = maxRequests - 1.
C2_AdmittedFromResetAt ==
    \A r \in Req :
        LET q == req[r] IN
        (/\ JustChecked(q)
         /\ ReadRecord(q)
         /\ q.rdVal.count >= LimitOf(q)
         /\ q.now >= q.rdVal.firstRequestTime + WindowMsOf(q))
        => (q.status.allowed /\ q.status.remaining = LimitOf(q) - 1)

\* a withRateLimit call stepping from cache.get into its rejection branch
RejectStep ==
    \E r \in Req :
        /\ req[r].pc = "get"
        /\ req[r].op = "wrl"
        /\ req'[r].pc = "analytics"

C2_RejectedState ==
    \A r \in Req :
        LET q == req[r] IN
        /\ (JustChecked(q) /\ ~q.status.allowed) =>
              /\ q.writes = 0
              /\ ReadRecord(q)
              /\ q.status.resetAt = q.rdVal.firstRequestTime + WindowMsOf(q)
        /\ (JustChecked(q) /\ ReadRecord(q) /\ q.rdVal.count >= LimitOf(q)
               /\ q.now > q.rdVal.firstRequestTime + WindowMsOf(q))
           => (q.status.allowed /\ q.status.remaining = LimitOf(q) - 1)
        /\ (JustChecked(q) /\ q.rdNull)
           => (q.status.allowed /\ q.status.remaining = LimitOf(q) - 1)

\* C2, amended: a rejected check writes nothing, leaves the store as it
\* is and reports resetAt = firstRequestTime + windowMs of the stored
\* record; a check that finds the limit reached is admitted with
\* remaining = maxRequests - 1 when it reads the clock at t > resetAt, or
\* when the entry has left the store.
C2_RejectedChecksAreFree ==
    [](C2_RejectedState) /\ [][RejectStep => store' = store]_vars

\* a check past resetAt of a record at its limit is admitted afresh
C2_Witness ==
    \E r \in Req :
        LET q == req[r] IN
        /\ JustChecked(q)
        /\ ReadRecord(q)
        /\ q.rdVal.count >= LimitOf(q)
        /\ q.now > q.rdVal.firstRequestTime + WindowMsOf(q)
        /\ q.status.allowed
        /\ q.status.remaining = LimitOf(q) - 1

\* a step of a getRateLimitStatus call
PeekStep ==
    \E r \in Req : req'[r] # req[r] /\ req'[r].op = "peek"

\* C3: getRateLimitStatus issues no put and no delete: none of its steps
\* changes the counter store, whatever it read.
C3_PeekIsReadOnly ==
    /\ [](\A r \in Req : req[r].op = "peek" => req[r].writes = 0)
    /\ [][PeekStep => store' = store]_vars

\* a getRateLimitStatus call that found a counter record has returned
C3_Witness ==
    \E r \in Req :
        /\ req[r].op = "peek"
        /\ req[r].pc = "done"
        /\ ReadRecord(req[r])
        /\ req[r].status.remaining < LimitOf(req[r])

\* every store operation of the call q was unavailable
StoreWasUnavailable(q) ==
    \/ (q.reads = 0 /\ q.warns = 1)
    \/ (q.op = "peek" /\ q.reads = 0 /\ q.hasStatus)
    \/ (q.getFault /\ (q.writes = 1 => q.putFault))

\* C4: when the binding is absent or both get and put fault,
\* checkRateLimit returns allowed = true and remaining = maxRequests.
C4_FailOpenValues ==
    \A r \in Req :
        LET q == req[r] IN
        (q.op = "wrl" /\ q.via = "limiter" /\ q.hasStatus /\ StoreWasUnavailable(q))
        => (q.status.allowed /\ q.status.remaining = LimitOf(q))

\* C5: a checkRateLimit or getRateLimitStatus call whose store operations
\* were all unavailable returns a status, and the status has allowed =
\* true, whatever the other requests in flight do.
C5_OutageAdmitsAll ==
    \A r \in Req :
        LET q == req[r] IN
        /\ (q.pc \in {"handler", "analytics", "done"} /\ q.via = "limiter") => q.hasStatus
        /\ (q.op = "peek" /\ q.pc = "done") => (q.hasStatus /\ q.outcome = "returned")
        /\ (q.hasStatus /\ StoreWasUnavailable(q)) => q.status.allowed

\* a check and a status query both ran into the failing namespace
C5_Witness ==
    \E r1, r2 \in Req :
        /\ req[r1].op = "wrl" /\ req[r1].getFault /\ req[r1].putFault
        /\ req[r1].hasStatus /\ req[r1].status.allowed
        /\ req[r2].op = "peek" /\ req[r2].getFault
        /\ req[r2].hasStatus /\ req[r2].status.allowed

\* the pathname of q starts with one of the skip paths of its policy
OnSkipList(q) ==
    \E p \in Config(q.custom).skipPaths :
        /\ Len(p) <= Len(q.path)
        /\ \A i \in 1..Len(p) : q.path[i] = p[i]

\* C6: a withRateLimit call for a pathname on the skip list invokes the
\* handler once, issues no store read or write, and returns the handler's
\* response with no X-RateLimit-* and no Retry-After header.
C6_SkipPathsBypass ==
    \A r \in Req :
        LET q == req[r] IN
        (q.op = "wrl" /\ OnSkipList(q)) =>
            /\ q.hcalls = 1
            /\ q.reads = 0
            /\ q.writes = 0
            /\ ~q.hasStatus
            /\ (q.pc = "done" /\ q.outcome = "returned") => q.resp = HandlerResponse

\* an enabled limiter has let /api/healthz through
C6_Witness ==
    \E r \in Req :
        /\ req[r].op = "wrl"
        /\ req[r].path = HealthzPath
        /\ req[r].flag # "false"
        /\ req[r].pc = "done"
        /\ req[r].outcome = "returned"
        /\ req[r].resp = HandlerResponse

\* the call q bypassed the limiter
Bypassed(q) ==
    /\ q.hcalls = 1
    /\ q.reads = 0
    /\ q.writes = 0
    /\ ~q.hasStatus
    /\ (q.pc = "done" /\ q.outcome = "returned") => q.resp = HandlerResponse

C8_RejectionResponse ==
    \A r \in Req :
        LET q == req[r] IN
        q.op = "wrl" =>
            /\ q.hcalls <= 1
            /\ (q.hasStatus /\ ~q.status.allowed) => q.hcalls = 0
            /\ q.pc = "done" =>
                  IF q.hasStatus /\ ~q.status.allowed
                  THEN /\ q.outcome = "returned"
                       /\ q.resp.code = 429
                       /\ q.resp.type = "RATE_LIMIT_ERROR"
                       /\ q.resp.headers["Retry-After"].set
                       /\ q.resp.headers["Retry-After"].v = q.resp.details.retryAfter
                  ELSE q.hcalls = 1

\* a rejected request has been answered
C8_Witness ==
    \E r \in Req :
        /\ req[r].op = "wrl"
        /\ req[r].pc = "done"
        /\ req[r].hasStatus
        /\ ~req[r].status.allowed
        /\ req[r].resp.code = 429

\* C9: the response of an admitted request carries X-RateLimit-Limit,
\* -Remaining and -Reset computed from the status of its own check, the
\* reset in whole seconds.
C9_AdmissionHeaders ==
    \A r \in Req :
        LET q == req[r] IN
        (/\ q.op = "wrl" /\ q.pc = "done" /\ q.outcome = "returned"
         /\ q.hasStatus /\ q.status.allowed) =>
            /\ q.status.limit = LimitOf(q)
            /\ q.resp.code = HandlerResponse.code
            /\ q.resp.headers["X-RateLimit-Limit"] = Hdr(q.status.limit)
            /\ q.resp.headers["X-RateLimit-Remaining"] = Hdr(q.status.remaining)
            /\ \E s \in 0..MaxTicks + EnvWindowSeconds + 1 :
                  /\ s * 1000 <= q.status.resetAt
                  /\ q.status.resetAt < (s + 1) * 1000
                  /\ q.resp.headers["X-RateLimit-Reset"] = Hdr(s)
            /\ ~q.resp.headers["Retry-After"].set

\* an admitted request of a counted window has been answered
C9_Witness ==
    \E r \in Req :
        /\ req[r].op = "wrl"
        /\ req[r].pc = "done"
        /\ req[r].outcome = "returned"
        /\ req[r].hasStatus
        /\ req[r].status.allowed
        /\ req[r].status.remaining < LimitOf(req[r])
        /\ req[r].resp.headers["X-RateLimit-Reset"].set
        /\ req[r].resp.headers["X-RateLimit-Reset"].v * 1000 < req[r].status.resetAt

(***************************************************************************)
(* Properties of the middleware pipeline.                                  *)
(***************************************************************************)
\* C10: when the handler throws, withErrorHandling, and so withMiddleware,
\* returns an error response instead of throwing.
C10_ErrorsBecomeResponses ==
    \A r \in Req :
        (mw[r].pc = "done" /\ mw[r].handlerThrew) =>
            /\ mw[r].outcome = "returned"
            /\ ~mw[r].resp.success
            /\ mw[r].resp.code >= 400

\* the number of times the event e is in the log
RECURSIVE Count(_, _)
Count(log, e) ==
    IF log = <<>> THEN 0
    ELSE (IF Head(log) = e THEN 1 ELSE 0) + Count(Tail(log), e)

IsPrefix(s, t) == Len(s) <= Len(t) /\ SubSeq(t, 1, Len(s)) = s

CompletedLog(level) ==
    <<"ids", "info:Incoming request", "invoke", "settled", level \o ":http",
      "analytics:trackHttpRequest", "headers">>
FailedLog ==
    <<"ids", "info:Incoming request", "invoke", "settled", "error:Request failed",
      "analytics:trackError">>
Levels == {"info", "warn", "error"}

\* C12: in every execution of withMiddleware the events of a request occur
\* in the order identifiers, 'Incoming request', handler invoked, handler
\* completed, completion or failure event, tracing headers; there is one
\* incoming event and one completion-or-failure event per request, and the
\* handler is invoked once.
C12_InRequestOrdering ==
    \A r \in Req :
        mw[r].op = "withMiddleware" =>
            /\ \/ \E l \in Levels : IsPrefix(mw[r].log, CompletedLog(l))
               \/ IsPrefix(mw[r].log, FailedLog)
            /\ mw[r].invoked = Count(mw[r].log, "invoke")
            /\ mw[r].invoked = 1
            /\ mw[r].pc = "done" =>
                  /\ Count(mw[r].log, "info:Incoming request") = 1
                  /\ mw[r].outcome = "returned" =>
                        mw[r].log = CompletedLog(HttpLevel(mw[r].resp.code))
                  /\ mw[r].outcome = "threw" => mw[r].log = FailedLog

C12_Witness ==
    \E r, q \in Req :
        /\ r # q
        /\ mw[r].op = "withMiddleware" /\ mw[r].pc = "done"
        /\ mw[r].outcome = "returned"
        /\ mw[r].log = CompletedLog("warn")
        /\ mw[q].op = "withMiddleware" /\ mw[q].pc = "done"
        /\ mw[q].outcome = "threw"
        /\ mw[q].log = FailedLog

\* C16: for a route built as withMiddleware(request, () => withApiHandler(fn))
\* every AppError thrown by fn yields a returned response with the error's
\* statusCode and a body {success: false, error.type = the error's type};
\* a normal return of fn yields status 200 with success: true and the data
\* fn returned.
C16_TypedErrorsBecomeResponses ==
    \A r \in Req :
        (mw[r].route = "withApiHandler" /\ mw[r].pc = "done") =>
            /\ mw[r].outcome = "returned"
            /\ (mw[r].handlerThrew /\ mw[r].thrown.kind = "AppError") =>
                  /\ mw[r].resp.code = mw[r].thrown.statusCode
                  /\ ~mw[r].resp.success
                  /\ mw[r].resp.type = mw[r].thrown.type
            /\ ~mw[r].handlerThrew =>
                  /\ mw[r].resp.code = 200
                  /\ mw[r].resp.success
                  /\ mw[r].resp.data = mw[r].ret

C16_Witness ==
    \E r, q \in Req :
        /\ mw[r].route = "withApiHandler" /\ mw[r].pc = "done"
        /\ mw[r].handlerThrew
        /\ mw[r].thrown.type = "DATABASE_CONNECTION_ERROR"
        /\ mw[r].resp.code = 503
        /\ mw[q].route = "withApiHandler" /\ mw[q].pc = "done"
        /\ ~mw[q].handlerThrew
        /\ mw[q].resp.data = 404

(***************************************************************************)
(* Properties of the errors and of the responses.                          *)
(***************************************************************************)
ErrorResponseOps == {"errorResponse"} \cup Helpers

\* C13: for every error response the code can produce (errorResponse with
\* or without its statusCode argument, on any AppError, and the notFound /
\* validation / unauthorized / forbidden / serviceUnavailable helpers) the
\* HTTP status equals ERROR_STATUS_MAP[type] of the type in the body, and
\* is never 200.
C13_StatusMatchesKind ==
    call.op \in ErrorResponseOps =>
        /\ call.status = ERROR_STATUS_MAP[call.body.type]
        /\ call.status # 200

\* C15: createAppErrorFromNative applied to an AppError returns it
\* unchanged, so normalizing twice equals normalizing once; applied twice
\* to the same raw value it yields the same type and statusCode.
C15_NormalizationIdempotent ==
    call.op = "createAppErrorFromNative" =>
        /\ call.error.kind = "AppError" =>
              /\ call.once = call.error
              /\ call.once.type = call.error.type
              /\ call.once.statusCode = call.error.statusCode
        /\ call.once.kind = "AppError"
        /\ call.twice = call.once
        /\ call.again.type = call.once.type
        /\ call.again.statusCode = call.once.statusCode

C15_Witness ==
    /\ call.op = "createAppErrorFromNative"
    /\ call.error.kind = "Error"
    /\ call.error.message = {"json", "sql"}
    /\ call.once.type = "DATABASE_ERROR"
    /\ call.twice.statusCode = 500

\* the error bodies of createErrorResponse and errorResponse carry details
\* and stack in a non-production configuration only
ErrorBodiesGuarded ==
    call.op \in {"createErrorResponse", "errorResponse"} =>
        /\ ~call.body.success
        /\ call.nodeEnv = "production" =>
              ~call.body.hasDetails /\ ~call.body.hasStack
        /\ (call.body.hasDetails \/ call.body.hasStack) => call.nodeEnv # "production"

\* C14 as stated: in production configuration every error body returned by
\* the core, those of createErrorResponse / errorResponse and the 429 body
\* built by withRateLimit, contains no details and no stack.
C14_NoDetailLeak ==
    /\ ErrorBodiesGuarded
    /\ \A r \in Req :
          (req[r].resp.code = 429 /\ env.NODE_ENV = "production") =>
              req[r].resp.details = NoDetails

\* C14 amended: in production configuration the error bodies of
\* createErrorResponse / errorResponse contain no details and no stack,
\* which appear in non-production configuration only; the 429 body built
\* by withRateLimit carries details {limit, resetAt, retryAfter} in every
\* configuration.
C14_NoLeakInErrorBodies ==
    /\ ErrorBodiesGuarded
    /\ \A r \in Req :
          req[r].resp.code = 429 =>
              /\ req[r].resp.type = "RATE_LIMIT_ERROR"
              /\ req[r].resp.details =
                    [limit |-> req[r].status.limit, resetAt |-> req[r].status.resetAt,
                     retryAfter |-> req[r].retryAfter]
              /\ req[r].resp.details # NoDetails

C14_Witness ==
    /\ env.NODE_ENV = "production"
    /\ call.op = "errorResponse"
    /\ call.error.details = "fields"
    /\ ~call.body.hasDetails
    /\ \E r \in Req : req[r].pc = "done" /\ req[r].resp.code = 429

(***************************************************************************)
(* Properties of the data access handle.                                   *)
(***************************************************************************)
\* C17: over any sequence of createPrismaClient calls, from direct callers
\* and from overlapping withRepositories requests, with no reset in between
\* and the database binding available, at most one PrismaClient is
\* constructed and every call returns that same instance.
C17_SingletonHandle ==
    prisma.disconnects = 0 =>
        /\ prisma.constructed <= 1
        /\ (call.op = "createPrismaClient" /\ call.db) =>
              /\ call.ret = 1
              /\ call.ret = prisma.client
        /\ \A r \in Req :
              (mw[r].route = "withRepositories" /\ mw[r].binding) =>
                  /\ mw[r].repos = 1
                  /\ mw[r].repos = prisma.client

C17_Witness ==
    /\ prisma.disconnects = 0
    /\ prisma.constructed = 1
    /\ call.op = "createPrismaClient" /\ call.db /\ call.ret = 1
    /\ call.before.client = 1
    /\ \A r \in Req :
          /\ mw[r].route = "withRepositories"
          /\ mw[r].pc = "handler"
          /\ mw[r].repos = 1

\* C18: after resetPrismaClient the cached handle is absent and
\* $disconnect() has been called on the client that was held; the next
\* createPrismaClient constructs a fresh instance distinct from the old
\* ones; with no cached handle resetPrismaClient changes nothing, so that
\* calling it twice equals calling it once.
C18_ResetClearsSingleton ==
    /\ call.op = "resetPrismaClient" =>
          /\ call.after.client = 0
          /\ call.before.client # 0 =>
                /\ call.before.client \in call.after.disconnected
                /\ call.after.disconnects = call.before.disconnects + 1
          /\ call.before.client = 0 => call.after = call.before
          /\ call.twice = call.after
    /\ (call.op = "createPrismaClient" /\ call.db /\ call.before.client = 0) =>
          /\ call.ret # 0
          /\ call.ret \notin call.before.disconnected
          /\ call.ret > call.before.constructed
          /\ call.after.client = call.ret
    /\ prisma.client \notin prisma.disconnected
    /\ prisma.disconnects = Cardinality(prisma.disconnected)

C18_Witness ==
    /\ call.op = "createPrismaClient"
    /\ call.before.client = 0
    /\ call.before.disconnected = {1}
    /\ call.ret = 2
    /\ prisma.client = 2

\* C19: when the database binding cannot be obtained, withRepositories
\* never invokes the business handler and the failure it surfaces is a
\* DatabaseConnectionError with type DATABASE_CONNECTION_ERROR and
\* statusCode 503; when the binding is available the handler is invoked
\* exactly once, with repositories built on the singleton handle.
C19_ConnectionUnavailable ==
    \A r \in Req :
        mw[r].route = "withRepositories" =>
            /\ ~mw[r].binding =>
                  /\ mw[r].invoked = 0
                  /\ mw[r].repos = 0
                  /\ mw[r].pc = "done" =>
                        /\ mw[r].outcome = "threw"
                        /\ mw[r].err.name = "DatabaseConnectionError"
                        /\ mw[r].err.type = "DATABASE_CONNECTION_ERROR"
                        /\ mw[r].err.statusCode = 503
            /\ mw[r].binding =>
                  /\ mw[r].invoked = 1
                  /\ mw[r].repos # 0
                  /\ mw[r].repos = prisma.client \/ mw[r].repos \in prisma.disconnected

C19_Witness ==
    \E r, q \in Req :
        /\ mw[r].route = "withRepositories" /\ mw[r].pc = "done"
        /\ ~mw[r].binding
        /\ mw[r].outcome = "threw"
        /\ mw[r].err.statusCode = 503
        /\ mw[q].route = "withRepositories" /\ mw[q].pc = "done"
        /\ mw[q].binding
        /\ mw[q].invoked = 1
        /\ mw[q].outcome = "returned"

(***************************************************************************)
(* Properties of the store adapter.                                        *)
(***************************************************************************)
CacheOps == {"get", "set", "put", "delete"}

\* C20: for any fault of the underlying KV namespace CacheClient.get
\* returns null and CacheClient.set / put / delete complete normally; none
\* of the four propagates an exception to its caller.
C20_AdapterNeverRaises ==
    call.op \in CacheOps =>
        /\ ~call.threw
        /\ (call.op = "get" /\ call.fault) => (call.isNull /\ call.val = NoValue)

C20_Witness ==
    /\ call.op = "get"
    /\ call.fault
    /\ call.isNull
    /\ ~call.threw
    /\ Live(call.key)

PutStep(r) == req[r].pc = "put" /\ req'[r].pc # "put"

\* C22 as stated: also under interleaved checkRateLimit calls for one
\* key, each write to the key either keeps firstRequestTime and strictly
\* increases the stored count, or sets count = 1 with a new
\* firstRequestTime.
C22_CounterMonotone ==
    [][\A r \in Req :
          (PutStep(r) /\ kvUp) =>
              LET k == KeyOf(req[r])
                  old == store[k].val
                  new == store'[k].val
              IN
              \/ /\ Live(k)
                 /\ new.firstRequestTime = old.firstRequestTime
                 /\ new.count > old.count
              \/ /\ new.count = 1
                 /\ Live(k) => new.firstRequestTime # old.firstRequestTime]_vars

\* C22 amended: each write is computed from the record its own call read:
\* it keeps the firstRequestTime of that record and stores its count + 1
\* when the record's window has not expired at the call's clock reading,
\* and stores count = 1 with firstRequestTime = the call's clock reading
\* otherwise; when the record in the store at the time of the write is
\* still the one the call read, the write strictly increases the stored
\* count and keeps the stored firstRequestTime.
C22_WritesFollowRead ==
    [][\A r \in Req :
          (PutStep(r) /\ kvUp) =>
              LET q == req[r]
                  k == KeyOf(q)
                  new == store'[k].val
                  kept == /\ ~q.rdNull
                          /\ q.rdVal.json
                          /\ q.now - q.rdVal.firstRequestTime <= WindowMsOf(q)
              IN
              /\ store'[k].present
              /\ new.json
              /\ IF kept
                 THEN /\ new.firstRequestTime = q.rdVal.firstRequestTime
                      /\ new.count = q.rdVal.count + 1
                 ELSE /\ new.firstRequestTime = q.now
                      /\ new.count = 1
              /\ (kept /\ store[k].present /\ store[k].val = q.rdVal) =>
                    /\ new.count > store[k].val.count
                    /\ new.firstRequestTime = store[k].val.firstRequestTime]_vars

\* a check has stored the count it read plus one
C22_Witness ==
    \E r \in Req :
        /\ JustChecked(req[r])
        /\ ReadRecord(req[r])
        /\ req[r].status.allowed
        /\ store[KeyOf(req[r])].present
        /\ store[KeyOf(req[r])].val.count = req[r].rdVal.count + 1
        /\ store[KeyOf(req[r])].val.firstRequestTime = req[r].rdVal.firstRequestTime
        /\ req[r].now > req[r].rdVal.firstRequestTime

\* C23: at every moment a counter record is in the store, its remaining
\* store TTL is at least the time remaining until firstRequestTime +
\* windowSeconds * 1000: the record does not expire from the store before
\* its logical window ends.
C23_TtlCoversWindow ==
    \A k \in Keys, custom \in CustomIds :
        (store[k].present /\ store[k].val.json) =>
            store[k].expiresAt - clock >=
                store[k].val.firstRequestTime
                    + Config(custom).windowSeconds * MsPerSecond - clock

\* a record of a window under way, written by a put that resolved after
\* the clock reading of its call
C23_Witness ==
    \E k \in Keys :
        /\ Live(k)
        /\ store[k].val.count = 2
        /\ clock > store[k].val.firstRequestTime
        /\ store[k].expiresAt > store[k].val.firstRequestTime + MsPerSecond

\* a check of withRateLimit that has returned
CheckReturned(r) ==
    /\ req[r].op = "wrl"
    /\ req[r].via = "limiter"
    /\ req[r].hasStatus

\* the check failed open because the store was unavailable: the binding
\* was absent, or cache.get or cache.put faulted
FailedOpen(r) ==
    /\ CheckReturned(r)
    /\ \/ req[r].reads = 0
       \/ req[r].getFault
       \/ req[r].putFault

\* C24: every checkRateLimit call that fails open because the store is
\* unavailable (binding absent, or get/put faulting) emits exactly one
\* warn-level log entry for that check, not zero and not one per failed
\* store operation.
C24_OneWarnPerFailOpen ==
    \A r \in DOMAIN req : FailedOpen(r) => req[r].warns = 1

\* C25: checkRateLimit calls for one key that interleave between their
\* read and their write can read the same count, all be admitted and raise
\* the stored count by 1 only, so that more than maxRequests calls are
\* admitted within one window (C25_Witness is such a state); whatever
\* landed in between, the store holds the value of the last write once it
\* has resolved.
C25_LastWriteWins ==
    [][\A r \in Req :
          (PutStep(r) /\ kvUp) =>
              LET q == req[r]
                  k == KeyOf(q)
              IN
              /\ store'[k].present
              /\ store'[k].val = JSONStringify(q.count, q.firstRequestTime)
              /\ \A j \in Keys \ {k} : store'[j] = store[j]]_vars

\* two calls of one policy, their clock readings within one window, read
\* the same store state and were both admitted; the stored count is the
\* count they read plus 1, and with them the window has admitted more
\* calls than maxRequests
C25_Witness ==
    \E r1, r2 \in Req :
        LET q1 == req[r1]
            q2 == req[r2]
            k == KeyOf(q1)
            seen == IF q1.rdNull THEN 0 ELSE q1.rdVal.count
        IN
        /\ r1 # r2
        /\ JustChecked(q1) /\ JustChecked(q2)
        /\ KeyOf(q2) = k
        /\ q1.custom = q2.custom
        /\ q1.rdNull = q2.rdNull /\ q1.rdVal = q2.rdVal
        /\ ~q1.getFault /\ ~q2.getFault
        /\ q1.now - q2.now <= WindowMsOf(q1) /\ q2.now - q1.now <= WindowMsOf(q1)
        /\ q1.status.allowed /\ q2.status.allowed
        /\ q1.writes = 1 /\ q2.writes = 1
        /\ ~q1.putFault /\ ~q2.putFault
        /\ Live(k)
        /\ store[k].val.count = seen + 1
        /\ seen + 2 > LimitOf(q1)

\* C26: counters are per (client, policy): the checks made for a client
\* under one policy never change the outcome of the checks for the same
\* client under another policy that leaves keyPrefix at its default; a
\* check is rejected only when calls of its own policy were admitted in
\* the window under way, and the first check of a policy in a window is
\* admitted with remaining = maxRequests - 1.
C26_PerPolicyCounters ==
    \A r \in Req :
        LET q == req[r]
            k == KeyOf(q)
        IN
        /\ (JustChecked(q) /\ ~q.status.allowed) => q.custom \in hist[k].custom
        /\ (JustChecked(q) /\ q.status.allowed /\ hist[k].admitted > 1
               /\ q.status.remaining # LimitOf(q) - 1)
           => hist[k].custom = {q.custom}

(***************************************************************************)
(* Properties of the statuses.                                             *)
(***************************************************************************)
\* checkRateLimit or getRateLimitStatus has returned a status to request r
HasStatus(r) ==
    /\ req[r].hasStatus
    /\ \/ req[r].op = "peek"
       \/ req[r].op = "wrl" /\ req[r].via = "limiter"

\* C27: every RateLimitStatus returned by checkRateLimit or
\* getRateLimitStatus, whatever record is stored (one written under another
\* policy or an unparsable one included) and whatever store fault occurs,
\* has limit = policy.maxRequests and 0 <= remaining <= limit, and
\* allowed = false implies remaining = 0.
C27_StatusWellFormed ==
    \A r \in Req :
        HasStatus(r) =>
            LET st == req[r].status IN
            /\ st.limit = LimitOf(req[r])
            /\ 0 <= st.remaining
            /\ st.remaining <= st.limit
            /\ ~st.allowed => st.remaining = 0

\* a status query found a record whose count is above its policy's limit,
\* and the cache.get of a check faulted
C27_Witness ==
    /\ req[1].op = "peek" /\ req[1].pc = "done"
    /\ ReadRecord(req[1])
    /\ req[1].rdVal.count > LimitOf(req[1])
    /\ ~req[1].status.allowed
    /\ req[1].status.remaining = 0
    /\ JustChecked(req[2])
    /\ req[2].getFault
    /\ req[2].status.remaining = LimitOf(req[2]) - 1

\* the status query p and the check q took the same clock reading and got
\* the same answer from the store, for one key and one policy
SameView(p, q) ==
    /\ p.op = "peek" /\ p.pc = "done" /\ p.reads = 1
    /\ JustChecked(q) /\ q.reads = 1
    /\ p.client = q.client /\ p.custom = q.custom
    /\ p.now = q.now
    /\ p.rdNull = q.rdNull /\ p.rdVal = q.rdVal
    /\ ~p.getFault /\ ~q.getFault /\ ~q.putFault

\* C28: for every store state (absent, unparsable, in-window, logically
\* expired) and the same clock reading, getRateLimitStatus reports
\* allowed = true exactly when a checkRateLimit that follows at once is
\* admitted; when it is admitted, the check's remaining is the peek's
\* remaining minus 1 and both report the same resetAt.
C28_PeekAgreesWithCheck ==
    \A r1, r2 \in Req :
        SameView(req[r1], req[r2]) =>
            LET ps == req[r1].status
                cs == req[r2].status
            IN
            /\ ps.allowed = cs.allowed
            /\ cs.allowed => /\ cs.remaining = ps.remaining - 1
                             /\ cs.resetAt = ps.resetAt

\* peek and check agree on a record that is still stored after its window
\* has ended, and on admitting it both report the window that starts now
C28_Witness ==
    \E r1, r2 \in Req :
        /\ SameView(req[r1], req[r2])
        /\ ReadRecord(req[r1])
        /\ req[r1].rdVal.count >= LimitOf(req[r1])
        /\ req[r1].rdVal.firstRequestTime # 0
        /\ req[r1].now - req[r1].rdVal.firstRequestTime > WindowMsOf(req[r1])
        /\ req[r2].status.allowed
        /\ req[r2].status.resetAt = req[r2].now + WindowMsOf(req[r2])

\* C29: on every rejected request the Retry-After header written by
\* withRateLimit is an integer with 0 <= Retry-After <= windowSeconds, even
\* though the clock is read again, and may have advanced, between the
\* decision of the limiter and the computation of Retry-After.
C29_RetryAfterRange ==
    \A r \in Req :
        LET q == req[r] IN
        (q.op = "wrl" /\ q.resp.headers["Retry-After"].set) =>
            /\ 0 <= q.resp.headers["Retry-After"].v
            /\ q.resp.headers["Retry-After"].v <= Config(q.custom).windowSeconds

(***************************************************************************)
(* Properties of the in-memory cache.                                      *)
(***************************************************************************)
\* C30: after any sequence of CacheService.set, get, delete and cleanup
\* the number of stored entries never exceeds config.maxSize, and get never
\* returns an entry whose expiresAt is earlier than the current time.
C30_MemoryBound ==
    /\ MemSize(mem) <= MemMaxSize
    /\ (call.op = "memGet" /\ call.hit) => call.expiresAt >= call.now

====
